---- MODULE Spec2Model ----
(***************************************************************************)
(* The C boundary of the bincode wrapper (src/src/lib.rs): Serialize,      *)
(* Deserialize, FreeBuffer and GetSerializedLength over opaque byte        *)
(* buffers, together with the part of the codec engine they call           *)
(* (length-prefixed Vec<u8>, little-endian, fixed-width length field,      *)
(* 64 KiB limit).  Spec is the boundary and its callers; CodecSpec is the  *)
(* codec engine called directly under the configurations of the format     *)
(* tests (fixed-width and variable-width length field); ThreadSpec is the  *)
(* boundary called from two threads, each call advancing statement by      *)
(* statement.                                                              *)
(*                                                                         *)
(* Memory contents are kept run-length packed: a byte buffer is a         *)
(* sequence of runs [byte, count], no run empty and no two neighbours of   *)
(* the same byte, so that equal buffers are equal values.  A pointer is a  *)
(* natural: Null, the dangling pointer of an empty boxed slice, or the     *)
(* address of a live heap allocation.                                      *)
(***************************************************************************)
EXTENDS Integers, Sequences, FiniteSets, TLC

---------------------------------------------------------------------------
(* Bounds of the model *)

\* longest payload enumerated byte by byte (longer ones are the filled
\* payloads at the size limit, see LimitLens)
MaxSmallLen == 1

\* number of results a caller holds at a time, and of heap addresses
MaxLive == 2

\* u64 quantities read from the wire are clamped to this value: every
\* comparison the code makes is against a length or a limit far below it
U64Clamp == 1073741824

---------------------------------------------------------------------------
(* Program constants *)

\* with_limit::<65536>() and the literal of the two size checks
SizeLimit == 65536

\* width of the fixed-width u64 length field
U64Width == 8

\* width of a fixed-width u32
U32Width == 4

\* ptr::null_mut()
Null == 0

\* the pointer of an empty Box<[u8]>: NonNull::dangling() for align 1
Dangling == 1

\* the largest value the variable-width strategy writes as one byte, and the
\* marker bytes that announce a value of 2, 4 and 8 bytes
SINGLE_BYTE_MAX == 250

U16_BYTE == 251

U32_BYTE == 252

U64_BYTE == 253

\* first address the allocator hands out for a non-empty allocation
HeapBase == Dangling + 1

Addrs == HeapBase .. (HeapBase + MaxLive - 1)

---------------------------------------------------------------------------
(* Byte buffers *)

Run(b, n) == [byte |-> b, count |-> n]

\* number of bytes of a buffer: slice.len(), vec.len()
RECURSIVE ByteLen(_)
ByteLen(buf) == IF buf = <<>> THEN 0 ELSE Head(buf).count + ByteLen(Tail(buf))

\* the bytes of x followed by the bytes of y
Cat(x, y) ==
    IF x = <<>> THEN y
    ELSE IF y = <<>> THEN x
    ELSE LET a == x[Len(x)]
             b == Head(y)
         IN  IF a.byte = b.byte
             THEN SubSeq(x, 1, Len(x) - 1) \o <<Run(a.byte, a.count + b.count)>>
                      \o Tail(y)
             ELSE x \o y

\* the buffer holding the bytes of the sequence s
RECURSIVE Pack(_)
Pack(s) == IF s = <<>> THEN <<>> ELSE Cat(<<Run(Head(s), 1)>>, Pack(Tail(s)))

\* the bytes of a buffer as a sequence
RECURSIVE Unpack(_)
Unpack(buf) ==
    IF buf = <<>> THEN <<>>
    ELSE [i \in 1..Head(buf).count |-> Head(buf).byte] \o Unpack(Tail(buf))

\* the first k bytes of a buffer: &buf[..k]
RECURSIVE Take(_, _)
Take(buf, k) ==
    IF k = 0 \/ buf = <<>> THEN <<>>
    ELSE IF Head(buf).count >= k THEN <<Run(Head(buf).byte, k)>>
    ELSE <<Head(buf)>> \o Take(Tail(buf), k - Head(buf).count)

\* a buffer without its first k bytes: &buf[k..]
RECURSIVE Drop(_, _)
Drop(buf, k) ==
    IF k = 0 \/ buf = <<>> THEN buf
    ELSE IF Head(buf).count > k
         THEN <<Run(Head(buf).byte, Head(buf).count - k)>> \o Tail(buf)
    ELSE Drop(Tail(buf), k - Head(buf).count)

\* byte i (from 1) of a buffer
RECURSIVE ByteAt(_, _)
ByteAt(buf, i) ==
    IF i <= Head(buf).count THEN Head(buf).byte
    ELSE ByteAt(Tail(buf), i - Head(buf).count)

---------------------------------------------------------------------------
(* Unsigned 64-bit values: four 16-bit digits, least significant first *)

Digit == 256 * 256

\* n as u64, for a natural n below 2^31 (a length, a limit of the boundary)
U64(n) == <<n % Digit, n \div Digit, 0, 0>>

\* v < 2^(16 * k)
Below(v, k) == \A i \in (k + 1)..4 : v[i] = 0

\* a > b
RECURSIVE Greater(_, _)
Greater(a, b) ==
    IF a = <<>> THEN FALSE
    ELSE LET n == Len(a)
         IN  IF a[n] # b[n] THEN a[n] > b[n]
             ELSE Greater(SubSeq(a, 1, n - 1), SubSeq(b, 1, n - 1))

\* the digits of v + c followed by the carry out of the last digit
RECURSIVE AddDigits(_, _)
AddDigits(v, c) ==
    IF v = <<>> THEN <<c>>
    ELSE <<(Head(v) + c) % Digit>> \o AddDigits(Tail(v), (Head(v) + c) \div Digit)

\* v.checked_add(n) for a natural n below 2^16
checked_add(v, n) ==
    LET s == AddDigits(v, n)
    IN  [overflow |-> s[5] # 0, sum |-> SubSeq(s, 1, 4)]

---------------------------------------------------------------------------
(* Codec engine: the configurations of the boundary and of the tests, the  *)
(* integer codec under both strategies, and the codec of Vec<u8>           *)

\* a configuration without with_limit
NoLimit == <<>>

\* bincode::config::standard().with_little_endian()
\*     .with_fixed_int_encoding().with_limit::<65536>()
bincode_config == [endian |-> "Little", int_encoding |-> "Fixed", limit |-> U64(SizeLimit)]

\* bincode::config::standard()
standard_config == [endian |-> "Little", int_encoding |-> "Variable", limit |-> NoLimit]

\* .with_variable_int_encoding().with_limit::<4294967305>(): 2^32 + 9
variable_config == [endian |-> "Little", int_encoding |-> "Variable", limit |-> <<9, 0, 1, 0>>]

\* .with_fixed_int_encoding().with_limit::<4294967305>()
fixed8_config == [endian |-> "Little", int_encoding |-> "Fixed", limit |-> <<9, 0, 1, 0>>]

Configs == {bincode_config, standard_config, variable_config, fixed8_config}

Min(a, b) == IF a < b THEN a ELSE b

\* most significant byte first
RECURSIVE to_be_bytes(_, _)
to_be_bytes(v, w) ==
    IF w = 0 THEN <<>> ELSE to_be_bytes(v \div 256, w - 1) \o <<v % 256>>

\* v.to_le_bytes() truncated to w bytes: least significant byte first
RECURSIVE to_le_bytes(_, _)
to_le_bytes(v, w) ==
    IF w = 0 THEN <<>> ELSE <<v % 256>> \o to_le_bytes(v \div 256, w - 1)

\* u64::from_le_bytes, clamped at U64Clamp
RECURSIVE from_le_bytes(_)
from_le_bytes(bytes) ==
    IF bytes = <<>> THEN 0
    ELSE LET hi == from_le_bytes(Tail(bytes))
         IN  IF hi >= U64Clamp \div 256 THEN U64Clamp
             ELSE Min(hi * 256 + Head(bytes), U64Clamp)

\* the first w bytes of v.to_le_bytes()
u64_to_le_bytes(v, w) ==
    SubSeq(to_le_bytes(v[1], 2) \o to_le_bytes(v[2], 2)
               \o to_le_bytes(v[3], 2) \o to_le_bytes(v[4], 2), 1, w)

\* u64::from_le_bytes of at most 8 bytes, the missing high bytes zero
u64_from_le_bytes(bytes) ==
    LET b(i) == IF i <= Len(bytes) THEN bytes[i] ELSE 0
    IN  [i \in 1..4 |-> b(2 * i - 1) + 256 * b(2 * i)]

\* the single-byte range ending one value early
varint_encode_u64_short_single(v) ==
    IF Below(v, 1) /\ v[1] < SINGLE_BYTE_MAX THEN <<v[1]>>
    ELSE IF Below(v, 1) THEN <<U16_BYTE>> \o u64_to_le_bytes(v, 2)
    ELSE IF Below(v, 2) THEN <<U32_BYTE>> \o u64_to_le_bytes(v, 4)
    ELSE <<U64_BYTE>> \o u64_to_le_bytes(v, 8)

\* the variable-width form of a u64: the value itself up to 250, else a
\* marker byte and the value in the narrowest of 2, 4 and 8 bytes
varint_encode_u64(v) ==
    IF Below(v, 1) /\ v[1] <= SINGLE_BYTE_MAX THEN <<v[1]>>
    ELSE IF Below(v, 1) THEN <<U16_BYTE>> \o u64_to_le_bytes(v, 2)
    ELSE IF Below(v, 2) THEN <<U32_BYTE>> \o u64_to_le_bytes(v, 4)
    ELSE <<U64_BYTE>> \o u64_to_le_bytes(v, 8)

\* every integer written in the variable-width form, whatever the
\* configuration says
encode_u64_always_variable(v, config) == varint_encode_u64(v)

\* u64::encode under the configured integer strategy
encode_u64(v, config) ==
    CASE config.int_encoding = "Fixed" -> u64_to_le_bytes(v, U64Width)
      [] config.int_encoding = "Variable" -> varint_encode_u64(v)

\* u32::encode under the configured integer strategy, for v of two 16-bit
\* digits: 4 bytes, or the variable-width form of the same value
encode_u32(v, config) ==
    CASE config.int_encoding = "Fixed" -> u64_to_le_bytes(<<v[1], v[2], 0, 0>>, U32Width)
      [] config.int_encoding = "Variable" -> varint_encode_u64(<<v[1], v[2], 0, 0>>)

\* the length field as the engine's default (variable-width) strategy writes
\* it, whatever the configuration says
encode_slice_len_variable(len, config) ==
    IF len < 251 THEN Pack(<<len>>)
    ELSE IF len < 65536 THEN Pack(<<251>> \o to_le_bytes(len, 2))
    ELSE Pack(<<252>> \o to_le_bytes(len, 4))

\* the length field of a sequence under the configured integer strategy:
\* (len as u64).encode(encoder)
encode_slice_len(len, config) == Pack(encode_u64(U64(len), config))

\* the payload followed by a terminating zero byte
encode_to_vec_with_terminator(vec, config) ==
    [ok |-> TRUE,
     encoded |-> Cat(Cat(encode_slice_len(ByteLen(vec), config), vec), <<Run(0, 1)>>)]

\* an empty payload written as no bytes at all
encode_to_vec_nothing_if_empty(vec, config) ==
    [ok |-> TRUE,
     encoded |-> IF vec = <<>> THEN <<>>
                 ELSE Cat(encode_slice_len(ByteLen(vec), config), vec)]

\* bincode::encode_to_vec(&vec, config) for Vec<u8>: length field, then the
\* bytes verbatim.  The encoder does not apply the configured limit
\* (test_vec_u8_length_encoding encodes 65536 bytes under the limit 65536).
encode_to_vec(vec, config) ==
    [ok |-> TRUE, encoded |-> Cat(encode_slice_len(ByteLen(vec), config), vec)]

DecodeErr(e) == [ok |-> FALSE, error |-> e]

\* the value bytes of an integer read off the front of slice: w bytes after
\* skip bytes of marker
ReadInt(slice, skip, w) ==
    IF ByteLen(slice) < skip + w THEN DecodeErr("UnexpectedEnd")
    ELSE LET bytes == Unpack(Take(Drop(slice, skip), w))
         IN  [ok |-> TRUE, value |-> u64_from_le_bytes(bytes),
              len |-> from_le_bytes(bytes), width |-> skip + w]

\* the variable-width form read back: a first byte up to 250 is the value,
\* a marker byte tells the width of the value that follows, 0xFE (u128) and
\* 0xFF are no u64
varint_decode_u64(slice) ==
    IF ByteLen(slice) = 0 THEN DecodeErr("UnexpectedEnd")
    ELSE LET first == ByteAt(slice, 1)
         IN  IF first <= SINGLE_BYTE_MAX THEN ReadInt(slice, 0, 1)
             ELSE IF first = U16_BYTE THEN ReadInt(slice, 1, 2)
             ELSE IF first = U32_BYTE THEN ReadInt(slice, 1, 4)
             ELSE IF first = U64_BYTE THEN ReadInt(slice, 1, 8)
             ELSE DecodeErr("InvalidIntegerType")

\* every integer read as 8 bytes, whatever the configuration says
decode_u64_fixed_only(slice, config) == ReadInt(slice, 0, U64Width)

\* the marker byte not counted in the bytes read
decode_u64_marker_uncounted(slice, config) ==
    LET r == CASE config.int_encoding = "Fixed" -> ReadInt(slice, 0, U64Width)
               [] config.int_encoding = "Variable" -> varint_decode_u64(slice)
    IN  IF r.ok /\ r.width \in {3, 5, 9} THEN [r EXCEPT !.width = r.width - 1] ELSE r

\* u64::decode under the configured integer strategy: the value (as u64 and
\* as a length clamped at U64Clamp) and the number of bytes it took
decode_u64(slice, config) ==
    CASE config.int_encoding = "Fixed" -> ReadInt(slice, 0, U64Width)
      [] config.int_encoding = "Variable" -> varint_decode_u64(slice)

\* the payload alone charged against the limit
over_limit_payload_only(len, config) ==
    config.limit # NoLimit /\ Greater(len, config.limit)

\* claim_bytes_read, claim_container_read: the 8 bytes of a u64 and the len
\* bytes of the payload charged against the limit, if there is one
over_limit(len, config) ==
    /\ config.limit # NoLimit
    /\ LET charged == checked_add(len, U64Width)
       IN  charged.overflow \/ Greater(charged.sum, config.limit)

\* a decoder that reads missing bytes as zero and hands back what is there
decode_from_slice_lenient(slice, config) ==
    LET field == Take(slice, U64Width)
        len == from_le_bytes(Unpack(field))
        rest == Drop(slice, U64Width)
    IN  IF over_limit(u64_from_le_bytes(Unpack(field)), config)
        THEN DecodeErr("LimitExceeded")
        ELSE [ok |-> TRUE,
              decoded |-> Take(rest, len),
              bytes_read |-> ByteLen(field) + Min(len, ByteLen(rest))]

\* bincode::decode_from_slice::<Vec<u8>, _>(slice, config): read the length
\* field, charge field and payload against the limit, read the payload;
\* returns the payload and the number of bytes read.
decode_from_slice(slice, config) ==
    LET field == decode_u64(slice, config)
    IN  IF ~field.ok THEN field
        ELSE IF over_limit(field.value, config) THEN DecodeErr("LimitExceeded")
        ELSE IF ByteLen(slice) - field.width < field.len THEN DecodeErr("UnexpectedEnd")
        ELSE [ok |-> TRUE,
              decoded |-> Take(Drop(slice, field.width), field.len),
              bytes_read |-> field.width + field.len]

---------------------------------------------------------------------------
(* The boundary functions, as functions of what the caller passes:         *)
(* data_null says whether the data pointer is null, data is the memory it  *)
(* points to (len bytes; nothing when it is null), out_null whether the    *)
(* out_len pointer is null.  Each returns what the call does: the path it  *)
(* took (status), the buffer it boxes for the caller (boxed, none or one), *)
(* whether and what it writes through out_len, whether it invoked the      *)
(* encoder and read through the data pointer, and how many input bytes the *)
(* decoder reported as read.                                               *)

Outcome(status, boxed, wrote, value, encode_called, read_data, bytes_read) ==
    [status |-> status, boxed |-> boxed, wrote |-> wrote, value |-> value,
     encode_called |-> encode_called, read_data |-> read_data,
     bytes_read |-> bytes_read]

\* a null data pointer refused whatever the length
missing_data_any_len(data_null, len) == data_null

\* lib.rs:36-41 and lib.rs:85-90: a null data pointer is refused unless
\* there is nothing to read
missing_data(data_null, len) == len # 0 /\ data_null

\* a null data pointer taken for an empty input
null_data_as_empty == Outcome("Ok", <<<<>>>>, TRUE, 0, FALSE, FALSE, 0)

\* lib.rs:40 and lib.rs:89: return ptr::null_mut(), out_len untouched
null_data_return == Outcome("NullData", <<>>, FALSE, 0, FALSE, FALSE, 0)

\* the check before encoding left out
payload_unchecked(vec) == FALSE

\* lib.rs:47
payload_over_limit(vec) == ByteLen(vec) > SizeLimit

\* the check after encoding made against the limit plus the length field
encoded_over_limit_plus_field(encoded) == ByteLen(encoded) > SizeLimit + U64Width

\* an encoded buffer of exactly the limit refused as well
encoded_over_limit_inclusive(encoded) == ByteLen(encoded) >= SizeLimit

\* lib.rs:55
encoded_over_limit(encoded) == ByteLen(encoded) > SizeLimit

\* the exact-consumption check left out
trailing_bytes_ignored(bytes_read, slice) == FALSE

\* lib.rs:100
trailing_bytes(bytes_read, slice) == bytes_read # ByteLen(slice)

\* the pointer of the first heap address whatever the allocation
as_mut_ptr_heap_base(result, addr) == IF ByteLen(result) = 0 THEN Dangling ELSE HeapBase

\* an empty result reported with a null pointer
as_mut_ptr_null_if_empty(result, addr) == IF ByteLen(result) = 0 THEN Null ELSE addr

\* result.as_mut_ptr() of the boxed slice: allocations of size zero are not
\* made, an empty slice has the dangling (non-null) pointer
as_mut_ptr(result, addr) == IF ByteLen(result) = 0 THEN Dangling ELSE addr

\* out_len tested only after the input has been copied
bincode_serialize_out_len_late(data_null, data, len, out_null) ==
    IF missing_data(data_null, len) THEN null_data_return
    ELSE IF out_null THEN Outcome("NullOutLen", <<>>, FALSE, 0, FALSE, len # 0, 0)
    ELSE LET vec == IF len = 0 THEN <<>> ELSE Take(data, len)
             read == len # 0
         IN  IF payload_over_limit(vec)
             THEN Outcome("PayloadOverLimit", <<>>, TRUE, 0, FALSE, read, 0)
             ELSE LET r == encode_to_vec(vec, bincode_config)
                  IN  IF ~r.ok THEN Outcome("EncodeError", <<>>, TRUE, 0, TRUE, read, 0)
                      ELSE IF encoded_over_limit(r.encoded)
                           THEN Outcome("EncodedOverLimit", <<>>, TRUE, 0, TRUE, read, 0)
                      ELSE Outcome("Ok", <<r.encoded>>, TRUE, ByteLen(r.encoded), TRUE, read, 0)

bincode_serialize(data_null, data, len, out_null) ==
    IF out_null THEN Outcome("NullOutLen", <<>>, FALSE, 0, FALSE, FALSE, 0)
    ELSE IF missing_data(data_null, len) THEN null_data_return
    ELSE LET vec == IF len = 0 THEN <<>> ELSE Take(data, len)
             read == len # 0
         IN  IF payload_over_limit(vec)
             THEN Outcome("PayloadOverLimit", <<>>, TRUE, 0, FALSE, read, 0)
             ELSE LET r == encode_to_vec(vec, bincode_config)
                  IN  IF ~r.ok THEN Outcome("EncodeError", <<>>, TRUE, 0, TRUE, read, 0)
                      ELSE IF encoded_over_limit(r.encoded)
                           THEN Outcome("EncodedOverLimit", <<>>, TRUE, 0, TRUE, read, 0)
                      ELSE Outcome("Ok", <<r.encoded>>, TRUE, ByteLen(r.encoded), TRUE, read, 0)

\* the decoded payload handed to Box::into_raw before the bytes_read check
bincode_deserialize_boxing_first(data_null, data, len, out_null) ==
    IF out_null THEN Outcome("NullOutLen", <<>>, FALSE, 0, FALSE, FALSE, 0)
    ELSE IF missing_data(data_null, len) THEN null_data_return
    ELSE LET slice == IF len = 0 THEN <<>> ELSE Take(data, len)
             read == len # 0
             r == decode_from_slice(slice, bincode_config)
         IN  IF ~r.ok THEN Outcome("DecodeError", <<>>, TRUE, 0, FALSE, read, 0)
             ELSE IF trailing_bytes(r.bytes_read, slice)
                  THEN Outcome("TrailingBytes", <<r.decoded>>, TRUE, 0, FALSE, read, r.bytes_read)
             ELSE Outcome("Ok", <<r.decoded>>, TRUE, ByteLen(r.decoded), FALSE, read, r.bytes_read)

\* the input decoded under the Fixed configuration of the cross-checks,
\* whose limit is not the boundary's
bincode_deserialize_other_limit(data_null, data, len, out_null) ==
    IF out_null THEN Outcome("NullOutLen", <<>>, FALSE, 0, FALSE, FALSE, 0)
    ELSE IF missing_data(data_null, len) THEN null_data_return
    ELSE LET slice == IF len = 0 THEN <<>> ELSE Take(data, len)
             read == len # 0
             r == decode_from_slice(slice, fixed8_config)
         IN  IF ~r.ok THEN Outcome("DecodeError", <<>>, TRUE, 0, FALSE, read, 0)
             ELSE IF trailing_bytes(r.bytes_read, slice)
                  THEN Outcome("TrailingBytes", <<>>, TRUE, 0, FALSE, read, r.bytes_read)
             ELSE Outcome("Ok", <<r.decoded>>, TRUE, ByteLen(r.decoded), FALSE, read, r.bytes_read)

bincode_deserialize(data_null, data, len, out_null) ==
    IF out_null THEN Outcome("NullOutLen", <<>>, FALSE, 0, FALSE, FALSE, 0)
    ELSE IF missing_data(data_null, len) THEN null_data_return
    ELSE LET slice == IF len = 0 THEN <<>> ELSE Take(data, len)
             read == len # 0
             r == decode_from_slice(slice, bincode_config)
         IN  IF ~r.ok THEN Outcome("DecodeError", <<>>, TRUE, 0, FALSE, read, 0)
             ELSE IF trailing_bytes(r.bytes_read, slice)
                  THEN Outcome("TrailingBytes", <<>>, TRUE, 0, FALSE, read, r.bytes_read)
             ELSE Outcome("Ok", <<r.decoded>>, TRUE, ByteLen(r.decoded), FALSE, read, r.bytes_read)

\* the length of the payload without its length field
get_payload_length(data_null, data, len) ==
    IF data_null THEN [value |-> 0, read_data |-> FALSE, boxed |-> <<>>]
    ELSE [value |-> ByteLen(Take(data, len)), read_data |-> TRUE, boxed |-> <<>>]

\* a null data pointer with length 0 taken for the empty payload, as
\* bincode_serialize takes it
get_serialized_length_null_as_empty(data_null, data, len) ==
    IF missing_data(data_null, len) THEN [value |-> 0, read_data |-> FALSE, boxed |-> <<>>]
    ELSE LET vec == IF len = 0 THEN <<>> ELSE Take(data, len)
             r == encode_to_vec(vec, bincode_config)
         IN  [value |-> IF r.ok THEN ByteLen(r.encoded) ELSE 0,
              read_data |-> len # 0, boxed |-> <<>>]

\* the encoded buffer boxed and leaked instead of dropped
get_serialized_length_into_raw(data_null, data, len) ==
    IF data_null THEN [value |-> 0, read_data |-> FALSE, boxed |-> <<>>]
    ELSE LET vec == Take(data, len)
             r == encode_to_vec(vec, bincode_config)
         IN  [value |-> IF r.ok THEN ByteLen(r.encoded) ELSE 0, read_data |-> TRUE,
              boxed |-> IF r.ok THEN <<r.encoded>> ELSE <<>>]

\* lib.rs:130-146: the copy of the input and the encoded buffer are dropped
\* on return, nothing is boxed for the caller
bincode_get_serialized_length(data_null, data, len) ==
    IF data_null THEN [value |-> 0, read_data |-> FALSE, boxed |-> <<>>]
    ELSE LET vec == Take(data, len)
             r == encode_to_vec(vec, bincode_config)
         IN  [value |-> IF r.ok THEN ByteLen(r.encoded) ELSE 0, read_data |-> TRUE,
              boxed |-> <<>>]

\* every allocation released, whatever the pointer
free_every_buffer(ptr, len, h) == [a \in DOMAIN h |-> [live |-> FALSE]]

\* the buffer forgotten instead of dropped
forget_buffer(ptr, len, h) == h

\* lib.rs:121-127: nothing for a null pointer; otherwise the boxed slice
\* (ptr, len) is rebuilt and dropped, which releases its allocation if it has
\* one (an empty boxed slice has none).  h is the heap, see the state below.
bincode_free_buffer(ptr, len, h) ==
    IF ptr = Null THEN h
    ELSE IF ptr \in DOMAIN h THEN [h EXCEPT ![ptr] = [live |-> FALSE]]
    ELSE h

---------------------------------------------------------------------------
(* What callers pass *)

ByteVals == {0, 255}

\* the payload of the documented example
ExamplePayload == Pack(<<1, 2, 3, 4, 5>>)

SmallPayloads ==
    {Pack(s) : s \in UNION {[1..n -> ByteVals] : n \in 0..MaxSmallLen}}
    \cup {ExamplePayload}

\* payload lengths around the two size checks
LimitLens == {SizeLimit - U64Width, SizeLimit - U64Width + 1, SizeLimit, SizeLimit + 1}

\* vec![b; n]
Filled(b, n) == <<Run(b, n)>>

LimitPayloads == {Filled(b, n) : b \in ByteVals, n \in LimitLens}

\* the encodings of the payloads around the limit as an engine without a
\* limit writes them
LimitWire == {Cat(Pack(to_le_bytes(ByteLen(b), U64Width)), b) : b \in LimitPayloads}

\* lengths passed along with a null data pointer
NullLens == {0, 5}

Arg(data_null, data) ==
    [data_null |-> data_null, data |-> data, len |-> ByteLen(data)]

NullArgs == {[data_null |-> TRUE, data |-> <<>>, len |-> n] : n \in NullLens}

\* length fields that no input of the model can satisfy: 2^16, 2^63, 2^64-1
BadHeaders ==
    {Pack(<<0, 0, 1, 0, 0, 0, 0, 0>>), Pack(<<0, 0, 0, 0, 0, 0, 0, 128>>),
     Pack(<<255, 255, 255, 255, 255, 255, 255, 255>>)}

\* a length field stating one byte less, exactly, or one byte more than follows
Framed(b) ==
    {Cat(Pack(to_le_bytes(n, U64Width)), b) :
        n \in {ByteLen(b) - 1, ByteLen(b), ByteLen(b) + 1} \ {-1}}

\* encoded inputs written by hand: framed small payloads, unsatisfiable
\* length fields, and every proper prefix of a length field
SmallWire ==
    UNION {Framed(b) : b \in SmallPayloads}
    \cup BadHeaders
    \cup {Pack(SubSeq(to_le_bytes(1, U64Width), 1, k)) : k \in 0..(U64Width - 1)}

\* A caller works either with small buffers, enumerated byte by byte, or
\* with buffers around the size limit.
Families == {"small", "limit"}

PayloadArgs(f) ==
    {Arg(FALSE, b) : b \in IF f = "small" THEN SmallPayloads ELSE LimitPayloads}
    \cup NullArgs

WireArgs(f) ==
    {Arg(FALSE, x) : x \in IF f = "small" THEN SmallWire ELSE LimitWire}
    \cup NullArgs

\* what a caller appends to a buffer it was handed
Suffixes == {Pack(<<255>>), Pack(<<255, 170>>)}

\* the out_len argument: null, or a slot holding some value before the call
OutSlots ==
    {[null |-> TRUE, before |-> 0]} \cup {[null |-> FALSE, before |-> v] : v \in {0, 7}}

---------------------------------------------------------------------------
(* State *)

\* family:  the kind of buffers this caller passes ("engine" for the format
\*          tests, which call the codec engine and not the boundary)
\* heap:    for every address, the allocation handed to the caller that
\*          lives there (its bytes, the call that made it and the bytes that
\*          call was given), or Free
\* empties: the number of results of length 0 the caller has been handed and
\*          has not passed to bincode_free_buffer yet (they have no
\*          allocation, so the heap does not show them)
\* call:    the call that has just returned, with its arguments and results,
\*          or NoCall once the caller has moved on
\* frames:  for every thread of a caller that calls from several threads,
\*          the position of its call in the function it called, the
\*          arguments, the locals of the call and, once it has returned, its
\*          results; all idle for a caller with one thread
VARIABLES family, heap, empties, call, frames

vars == <<family, heap, empties, call, frames>>

Free == [live |-> FALSE]

NoCall == [op |-> "none"]

Live == {a \in Addrs : heap[a] # Free}

\* the number of results the caller holds
Held == Cardinality(Live) + empties

\* the pointers the caller holds
LivePointers == Live \cup (IF empties > 0 THEN {Dangling} ELSE {})

\* the threads of a caller that calls from two threads at once
Threads == {1, 2}

\* the frame of a thread that is in no call
Idle ==
    [pc |-> "idle", op |-> "none", arg |-> <<>>, out |-> <<>>,
     vec |-> <<>>, coded |-> <<>>, result |-> <<>>]

NoFrames == [t \in Threads |-> Idle]

\* the bytes a caller finds behind a result pointer
Contents(ptr) == IF ptr \in Live THEN heap[ptr].bytes ELSE <<>>

Init ==
    /\ family \in Families
    /\ heap = [a \in Addrs |-> Free]
    /\ empties = 0
    /\ call = NoCall
    /\ frames = NoFrames

\* let result = v.into_boxed_slice(); let ptr = result.as_mut_ptr();
\* *out_len = result.len(); Box::into_raw(result); ptr
\* and the other returns of bincode_serialize and bincode_deserialize: the
\* outcome r of the call op on argument a with out_len argument o becomes
\* the new heap and the call record.  from tells how the caller built the
\* argument: from the live buffer from.src with from.appended added at its
\* end and from.cut bytes taken off it, or by hand (from.src = Null).
\* A caller that holds MaxLive results makes no call that hands it another.
Return(op, a, from, o, r) ==
    \E addr \in (IF r.boxed = <<>> THEN {Null}
                 ELSE IF Held >= MaxLive THEN {}
                 ELSE IF ByteLen(r.boxed[1]) = 0 THEN {Dangling}
                 ELSE Addrs \ Live) :
        /\ heap' = IF addr \in Addrs
                   THEN [heap EXCEPT ![addr] =
                            [live |-> TRUE, bytes |-> r.boxed[1], by |-> op,
                             arg |-> a.data]]
                   ELSE heap
        /\ empties' = IF addr = Dangling THEN empties + 1 ELSE empties
        /\ call' = [op |-> op, data_null |-> a.data_null, data |-> a.data,
                    len |-> a.len, src |-> from.src,
                    appended |-> from.appended, cut |-> from.cut,
                    out_null |-> o.null, slot_before |-> o.before,
                    wrote |-> r.wrote,
                    slot_after |-> IF r.wrote THEN r.value ELSE o.before,
                    ret |-> IF r.status = "Ok" THEN as_mut_ptr(r.boxed[1], addr)
                            ELSE Null,
                    status |-> r.status, encode_called |-> r.encode_called,
                    read_data |-> r.read_data, bytes_read |-> r.bytes_read]

ByHand == [src |-> Null, appended |-> <<>>, cut |-> 0]

Serialize ==
    /\ UNCHANGED <<family, frames>>
    /\ call = NoCall
    /\ \E a \in PayloadArgs(family), o \in OutSlots :
          Return("serialize", a, ByHand, o,
                 bincode_serialize(a.data_null, a.data, a.len, o.null))

\* Deserialize on bytes written by hand, or on a null data pointer
DeserializeWire ==
    /\ UNCHANGED <<family, frames>>
    /\ call = NoCall
    /\ \E a \in WireArgs(family), o \in OutSlots :
          Return("deserialize", a, ByHand, o,
                 bincode_deserialize(a.data_null, a.data, a.len, o.null))

\* Deserialize on a buffer a previous call returned, passed as it is
DeserializeReturned ==
    /\ UNCHANGED <<family, frames>>
    /\ call = NoCall
    /\ \E p \in Live, o \in OutSlots :
          LET a == Arg(FALSE, heap[p].bytes)
          IN  Return("deserialize", a, [src |-> p, appended |-> <<>>, cut |-> 0], o,
                     bincode_deserialize(a.data_null, a.data, a.len, o.null))

\* Deserialize on a copy of a returned buffer with bytes appended
DeserializeExtended ==
    /\ UNCHANGED <<family, frames>>
    /\ call = NoCall
    /\ \E p \in Live, o \in OutSlots, s \in Suffixes :
          LET a == Arg(FALSE, Cat(heap[p].bytes, s))
          IN  Return("deserialize", a, [src |-> p, appended |-> s, cut |-> 0], o,
                     bincode_deserialize(a.data_null, a.data, a.len, o.null))

\* Deserialize on a copy of a returned buffer with its last byte cut off
DeserializeTruncated ==
    /\ UNCHANGED <<family, frames>>
    /\ call = NoCall
    /\ \E p \in Live, o \in OutSlots :
          LET a == Arg(FALSE, Take(heap[p].bytes, ByteLen(heap[p].bytes) - 1))
          IN  Return("deserialize", a, [src |-> p, appended |-> <<>>, cut |-> 1], o,
                     bincode_deserialize(a.data_null, a.data, a.len, o.null))

\* bincode_get_serialized_length on a payload written by hand, on a null
\* data pointer, or on a buffer a previous call returned (src)
GetSerializedLength ==
    /\ UNCHANGED <<family, frames>>
    /\ call = NoCall
    /\ \E a \in {[arg |-> x, src |-> Null] : x \in PayloadArgs(family)}
                \cup {[arg |-> Arg(FALSE, heap[p].bytes), src |-> p] : p \in Live} :
          LET r == bincode_get_serialized_length(a.arg.data_null, a.arg.data, a.arg.len)
          IN  /\ \E addr \in (IF r.boxed = <<>> THEN {Null} ELSE Addrs \ Live) :
                     heap' = IF addr \in Addrs
                             THEN [heap EXCEPT ![addr] =
                                      [live |-> TRUE, bytes |-> r.boxed[1],
                                       by |-> "get_serialized_length",
                                       arg |-> a.arg.data]]
                             ELSE heap
              /\ call' = [op |-> "get_serialized_length",
                          data_null |-> a.arg.data_null, data |-> a.arg.data,
                          len |-> a.arg.len, src |-> a.src, value |-> r.value,
                          read_data |-> r.read_data]
    /\ UNCHANGED empties

\* bincode_free_buffer on what its contract allows: a null pointer with any
\* length, or a pointer a call returned together with the length it returned
FreeBuffer ==
    /\ UNCHANGED <<family, frames>>
    /\ call = NoCall
    /\ \E f \in {[ptr |-> Null, len |-> n] : n \in NullLens}
                \cup {[ptr |-> Dangling, len |-> 0] : n \in 1..empties}
                \cup {[ptr |-> p, len |-> ByteLen(heap[p].bytes)] : p \in Live} :
          /\ heap' = bincode_free_buffer(f.ptr, f.len, heap)
          /\ empties' = IF f.ptr = Dangling THEN empties - 1 ELSE empties
          /\ call' = [op |-> "free", ptr |-> f.ptr, len |-> f.len]

\* the caller has read the results of the call and goes on
Resume ==
    /\ UNCHANGED <<family, frames>>
    /\ call # NoCall
    /\ call' = NoCall
    /\ UNCHANGED <<heap, empties>>

Next ==
    \/ Serialize
    \/ DeserializeWire
    \/ DeserializeReturned
    \/ DeserializeExtended
    \/ DeserializeTruncated
    \/ GetSerializedLength
    \/ FreeBuffer
    \/ Resume

Spec == Init /\ [][Next]_vars

---------------------------------------------------------------------------
(* The codec engine called directly, as the format tests call it: a value  *)
(* is encoded under one configuration and the bytes are decoded under the  *)
(* same or another one.  The heap of the boundary is not involved.         *)

\* u64 values on both sides of 250/251, 2^16, 2^32, and up to 2^64 - 1, and
\* the value of test_u64_encoding, 0x0123456789ABCDEF
U64Inputs ==
    {<<a, b, c, d>> : a \in {0, 1, 250, 251, 255, 256, 65535},
                      b \in {0, 1, 65535}, c \in {0, 1, 65535}, d \in {0, 65535}}
        \cup {<<52719, 35243, 17767, 291>>}

\* u32 values as two 16-bit digits: 0, 42, the thresholds, u32::MAX and the
\* value of test_u32_encoding, 0x12345678
U32Inputs ==
    {<<a, b>> : a \in {0, 42, 250, 251, 65535}, b \in {0, 1, 65535}}
        \cup {<<22136, 4660>>}

\* payload lengths of the format tests
SeqLens == {0, 1, 5, 100, 250, 251, 255, 256, 20 * 1024, 65535, 65536}

\* payloads of the format tests: small ones, [0, 255, 128, 64], vec![b; n]
SeqInputs ==
    SmallPayloads \cup {Pack(<<0, 255, 128, 64>>)}
        \cup {IF n = 0 THEN <<>> ELSE Filled(b, n) : b \in {0, 1}, n \in SeqLens}

CodecInit ==
    /\ family = "engine"
    /\ heap = [a \in Addrs |-> Free]
    /\ empties = 0
    /\ call = NoCall
    /\ frames = NoFrames

\* bincode::encode_to_vec(&v, config) of a u64
EncodeU64 ==
    /\ call = NoCall
    /\ \E v \in U64Inputs, c \in Configs :
          call' = [op |-> "encode_u64", config |-> c, value |-> v,
                   encoded |-> Pack(encode_u64(v, c))]
    /\ UNCHANGED <<family, heap, empties, frames>>

\* bincode::encode_to_vec(&v, config) of a u32
EncodeU32 ==
    /\ call = NoCall
    /\ \E v \in U32Inputs, c \in Configs :
          call' = [op |-> "encode_u32", config |-> c, value |-> v,
                   encoded |-> Pack(encode_u32(v, c))]
    /\ UNCHANGED <<family, heap, empties, frames>>

\* the bytes just encoded, whole or with the last one cut off, decoded as a
\* u64 under some configuration
DecodeU64 ==
    /\ call.op = "encode_u64"
    /\ \E c \in Configs, cut \in {0, 1} :
          LET slice == Take(call.encoded, ByteLen(call.encoded) - cut)
          IN  call' = [op |-> "decode_u64", encoded_with |-> call.config,
                       config |-> c, value |-> call.value, cut |-> cut,
                       slice |-> slice, result |-> decode_u64(slice, c)]
    /\ UNCHANGED <<family, heap, empties, frames>>

\* bincode::encode_to_vec(&payload, config) of a Vec<u8>
EncodeToVec ==
    /\ call = NoCall
    /\ \E b \in SeqInputs, c \in Configs :
          LET r == encode_to_vec(b, c)
          IN  call' = [op |-> "encode_to_vec", config |-> c, payload |-> b,
                       ok |-> r.ok, encoded |-> r.encoded]
    /\ UNCHANGED <<family, heap, empties, frames>>

\* bincode::decode_from_slice(&encoded, config) of the bytes just encoded,
\* followed by the test helpers' bytes_read != serialized.len() check
DecodeFromSlice ==
    /\ call.op = "encode_to_vec"
    /\ \E c \in Configs :
          LET r == decode_from_slice(call.encoded, c)
          IN  call' = [op |-> "decode_from_slice", encoded_with |-> call.config,
                       config |-> c, payload |-> call.payload,
                       slice |-> call.encoded, result |-> r,
                       exact |-> r.ok /\ ~trailing_bytes(r.bytes_read, call.encoded)]
    /\ UNCHANGED <<family, heap, empties, frames>>

CodecNext ==
    \/ EncodeU64
    \/ EncodeU32
    \/ DecodeU64
    \/ EncodeToVec
    \/ DecodeFromSlice
    \/ Resume

CodecSpec == CodecInit /\ [][CodecNext]_vars

---------------------------------------------------------------------------
(* The boundary called from two threads at once, each thread on buffers of *)
(* its own.  A call advances statement by statement: the pointer tests,    *)
(* the copy of the input, the codec with its size checks, the boxing of    *)
(* the result.  The threads share the allocator and nothing else: the      *)
(* configuration is built by each call, vec, encoded and decoded are       *)
(* locals of the call.                                                     *)

\* every call keeping its locals in the same static storage
local_static(t) == 1

\* where the locals of the call of thread t live: in the frame of the call
Local(t) == t

\* payloads and encoded inputs the threads pass: empty, the documented
\* example, one byte over the longest payload that fits; the encoded empty
\* payload, the encoded example whole, extended and truncated
ThreadPayloads == {<<>>, ExamplePayload, Filled(0, SizeLimit - U64Width + 1)}

ThreadWire ==
    LET e == Cat(Pack(to_le_bytes(ByteLen(ExamplePayload), U64Width)), ExamplePayload)
    IN  {Pack(to_le_bytes(0, U64Width)), e, Cat(e, Pack(<<255>>)),
         Take(e, ByteLen(e) - 1)}

ThreadCalls ==
    {[op |-> "serialize", arg |-> a, out |-> o] :
        a \in {Arg(FALSE, b) : b \in ThreadPayloads} \cup NullArgs, o \in OutSlots}
    \cup {[op |-> "deserialize", arg |-> a, out |-> o] :
        a \in {Arg(FALSE, x) : x \in ThreadWire} \cup NullArgs, o \in OutSlots}
    \cup {[op |-> "get_serialized_length", arg |-> a, out |-> [null |-> TRUE, before |-> 0]] :
        a \in {Arg(FALSE, b) : b \in ThreadPayloads} \cup NullArgs}

ThreadInit ==
    /\ family = "threads"
    /\ heap = [a \in Addrs |-> Free]
    /\ empties = 0
    /\ call = NoCall
    /\ frames = NoFrames

\* the locals of the call of thread t
Vec(t) == frames[Local(t)].vec

Coded(t) == frames[Local(t)].coded

\* the call of thread t returns: its locals are dropped, the caller finds
\* the returned pointer, what out_len points to, and for
\* bincode_get_serialized_length the returned length
Returns(t, status, wrote, value, ret) ==
    [frames EXCEPT ![Local(t)].vec = <<>>, ![Local(t)].coded = <<>>,
                   ![t].pc = "returned",
                   ![t].result =
                       [status |-> status, wrote |-> wrote, value |-> value,
                        ret |-> ret,
                        slot_after |-> IF wrote THEN value ELSE frames[t].out.before]]

\* a thread that is in no call calls one of the three functions
Call(t) ==
    /\ frames[t].pc = "idle"
    /\ \E c \in ThreadCalls :
          frames' = [frames EXCEPT ![t].pc = "entry", ![t].op = c.op,
                                   ![t].arg = c.arg, ![t].out = c.out]
    /\ UNCHANGED <<family, heap, empties, call>>

\* lib.rs:32-34, 81-83: if out_len.is_null() { return ptr::null_mut(); }
\* lib.rs:134-136: if data.is_null() { return 0; }
TestPointers(t) ==
    LET f == frames[t]
    IN  /\ f.pc = "entry"
        /\ frames' =
               IF f.op = "get_serialized_length"
               THEN IF f.arg.data_null THEN Returns(t, "NullData", FALSE, 0, Null)
                    ELSE [frames EXCEPT ![t].pc = "input"]
               ELSE IF f.out.null THEN Returns(t, "NullOutLen", FALSE, 0, Null)
               ELSE [frames EXCEPT ![t].pc = "input"]
        /\ UNCHANGED <<family, heap, empties, call>>

\* lib.rs:36-44: let vec = ... slice.to_vec(); lib.rs:85-92: let slice = ...;
\* lib.rs:139-140
TakeInput(t) ==
    LET f == frames[t]
    IN  /\ f.pc = "input"
        /\ frames' =
               IF f.op = "get_serialized_length"
               THEN [frames EXCEPT ![t].pc = "codec",
                                   ![Local(t)].vec = Take(f.arg.data, f.arg.len)]
               ELSE IF missing_data(f.arg.data_null, f.arg.len)
               THEN Returns(t, null_data_return.status, null_data_return.wrote,
                            null_data_return.value, Null)
               ELSE [frames EXCEPT ![t].pc = "codec",
                                   ![Local(t)].vec =
                                       IF f.arg.len = 0 THEN <<>>
                                       ELSE Take(f.arg.data, f.arg.len)]
        /\ UNCHANGED <<family, heap, empties, call>>

\* lib.rs:47-58: the two size checks around bincode::encode_to_vec;
\* lib.rs:94-103: bincode::decode_from_slice and the bytes_read check;
\* lib.rs:141-144: encoded.len(), the encoded buffer dropped
RunCodec(t) ==
    LET f == frames[t]
    IN  /\ f.pc = "codec"
        /\ frames' =
               CASE f.op = "serialize" ->
                        IF payload_over_limit(Vec(t))
                        THEN Returns(t, "PayloadOverLimit", TRUE, 0, Null)
                        ELSE LET r == encode_to_vec(Vec(t), bincode_config)
                             IN  IF ~r.ok THEN Returns(t, "EncodeError", TRUE, 0, Null)
                                 ELSE IF encoded_over_limit(r.encoded)
                                 THEN Returns(t, "EncodedOverLimit", TRUE, 0, Null)
                                 ELSE [frames EXCEPT ![t].pc = "boxing",
                                                     ![Local(t)].coded = r.encoded]
                 [] f.op = "deserialize" ->
                        LET r == decode_from_slice(Vec(t), bincode_config)
                        IN  IF ~r.ok THEN Returns(t, "DecodeError", TRUE, 0, Null)
                            ELSE IF trailing_bytes(r.bytes_read, Vec(t))
                            THEN Returns(t, "TrailingBytes", TRUE, 0, Null)
                            ELSE [frames EXCEPT ![t].pc = "boxing",
                                                ![Local(t)].coded = r.decoded]
                 [] f.op = "get_serialized_length" ->
                        LET r == encode_to_vec(Vec(t), bincode_config)
                        IN  Returns(t, "Ok", FALSE, IF r.ok THEN ByteLen(r.encoded) ELSE 0,
                                    Null)
        /\ UNCHANGED <<family, heap, empties, call>>

\* lib.rs:59-63, 104-108: into_boxed_slice, as_mut_ptr, *out_len = len,
\* Box::into_raw, return ptr
BoxResult(t) ==
    LET f == frames[t]
        result == Coded(t)
    IN  /\ f.pc = "boxing"
        /\ \E addr \in (IF ByteLen(result) = 0 THEN {Dangling} ELSE Addrs \ Live) :
               /\ heap' = IF addr \in Addrs
                          THEN [heap EXCEPT ![addr] =
                                   [live |-> TRUE, bytes |-> result, by |-> t,
                                    arg |-> f.arg.data]]
                          ELSE heap
               /\ empties' = IF addr = Dangling THEN empties + 1 ELSE empties
               /\ frames' = Returns(t, "Ok", TRUE, ByteLen(result),
                                    as_mut_ptr(result, addr))
        /\ UNCHANGED <<family, call>>

\* the thread has read the results; it passes the buffer it was handed, if
\* any, to bincode_free_buffer and is ready for its next call
Release(t) ==
    LET f == frames[t]
    IN  /\ f.pc = "returned"
        /\ heap' = bincode_free_buffer(f.result.ret, f.result.slot_after, heap)
        /\ empties' = IF f.result.ret = Dangling THEN empties - 1 ELSE empties
        /\ frames' = [frames EXCEPT ![t] = Idle]
        /\ UNCHANGED <<family, call>>

ThreadNext ==
    \E t \in Threads :
        \/ Call(t)
        \/ TestPointers(t)
        \/ TakeInput(t)
        \/ RunCodec(t)
        \/ BoxResult(t)
        \/ Release(t)

ThreadSpec == ThreadInit /\ [][ThreadNext]_vars

---------------------------------------------------------------------------
(* Properties *)

IsSerialize == call.op = "serialize"

IsDeserialize == call.op = "deserialize"

\* the call passed an out_len slot and a data pointer it may pass
WellFormed == ~call.out_null /\ (call.len = 0 \/ ~call.data_null)

\* the call is a Deserialize on a live buffer that Serialize returned
OnSerialized ==
    /\ IsDeserialize
    /\ call.src # Null /\ call.appended = <<>> /\ call.cut = 0
    /\ heap[call.src].by = "serialize"

\* Deserialize, called properly on the buffer e, accepts it
Accepts(e) == bincode_deserialize(FALSE, e, ByteLen(e), FALSE).status = "Ok"

\* byte i (from 1) of the little-endian form of n, for n below 2^31
LeByte(n, i) == IF i > 4 THEN 0 ELSE (n \div (256 ^ (i - 1))) % 256

\* Deserialize of what Serialize returned gives back the payload and has
\* read the whole buffer
RoundTrips ==
    OnSerialized /\ ~call.out_null =>
        /\ call.ret # Null
        /\ Contents(call.ret) = heap[call.src].arg
        /\ call.slot_after = ByteLen(heap[call.src].arg)
        /\ call.bytes_read = call.len

\* C1 as stated: every payload of at most 65536 bytes is serialized, and
\* Deserialize of the returned bytes succeeds, returns the payload and has
\* consumed the whole buffer.
C1_RoundTripUpToLimit ==
    /\ (IsSerialize /\ WellFormed /\ call.len <= SizeLimit) => call.ret # Null
    /\ RoundTrips

\* C1 as amended: every payload of at most 65528 bytes (encoded form within
\* the limit) is serialized, and Deserialize of the returned bytes succeeds,
\* returns the payload and has consumed the whole buffer.
C1_RoundTripEncodedWithinLimit ==
    /\ (IsSerialize /\ WellFormed /\ call.len + U64Width <= SizeLimit) =>
           call.ret # Null
    /\ RoundTrips

\* the round trip of the longest payload that fits has just completed
C1_Witness ==
    /\ OnSerialized /\ ~call.out_null
    /\ ByteLen(heap[call.src].arg) = SizeLimit - U64Width
    /\ call.ret \in Live
    /\ Contents(call.ret) = heap[call.src].arg

\* C2: a buffer that Serialize returns is the payload length in 8 bytes
\* little-endian followed by the payload, and out_len holds len + 8;
\* [1,2,3,4,5] gives [5,0,0,0,0,0,0,0,1,2,3,4,5].
C2_SerializeLayout ==
    IsSerialize /\ call.ret # Null =>
        LET out == Contents(call.ret)
        IN  /\ ByteLen(out) = call.len + 8
            /\ call.slot_after = call.len + 8
            /\ \A i \in 1..8 : ByteAt(out, i) = LeByte(call.len, i)
            /\ Drop(out, 8) = call.data
            /\ \A i \in 1..Min(call.len, 8) :
                   ByteAt(out, 8 + i) = ByteAt(call.data, i)
            /\ (Unpack(call.data) = <<1, 2, 3, 4, 5>> =>
                    Unpack(out) = <<5, 0, 0, 0, 0, 0, 0, 0, 1, 2, 3, 4, 5>>)

\* Serialize has returned the encoding of the example payload
C2_Witness ==
    /\ IsSerialize /\ call.ret # Null
    /\ call.data = ExamplePayload
    /\ ByteLen(Contents(call.ret)) = 13

\* C3: a Deserialize input that is an accepted buffer followed by at least
\* one more byte is refused, with a null result and 0 in out_len: checked for
\* every returned buffer with a suffix appended, and for every proper prefix
\* of every small input.
C3_TrailingBytesRejected ==
    /\ (IsDeserialize /\ ~call.out_null /\ call.appended # <<>>
            /\ Accepts(heap[call.src].bytes)) =>
           (call.ret = Null /\ call.slot_after = 0)
    /\ (IsDeserialize /\ ~call.out_null /\ ~call.data_null /\ family = "small"
            /\ \E k \in 0..(call.len - 1) : Accepts(Take(call.data, k))) =>
           (call.ret = Null /\ call.slot_after = 0)

\* Deserialize has refused an accepted buffer with bytes appended, having
\* decoded the payload and found input left over
C3_Witness ==
    /\ IsDeserialize /\ ~call.out_null /\ call.appended # <<>>
    /\ Accepts(heap[call.src].bytes)
    /\ call.status = "TrailingBytes"
    /\ call.bytes_read < call.len
    /\ call.ret = Null

\* C4: every Serialize or Deserialize call that fails with a non-null
\* out_len returns null and leaves 0 in the out_len slot, whatever the slot
\* held before.
C4_UniformFailureSignal ==
    (IsSerialize \/ IsDeserialize) /\ ~call.out_null /\ call.status # "Ok" =>
        (call.ret = Null /\ call.slot_after = 0)

\* C5: Serialize of a payload longer than 65536 bytes returns null and has
\* not invoked the encoder.
C5_PreEncodeCheck ==
    IsSerialize /\ call.len > SizeLimit =>
        (call.ret = Null /\ ~call.encode_called /\ call.status # "Ok")

\* Serialize has refused a payload of limit + 1 bytes at the check that
\* precedes encoding
C5_Witness ==
    /\ IsSerialize /\ WellFormed
    /\ call.len = SizeLimit + 1
    /\ call.status = "PayloadOverLimit"
    /\ ~call.encode_called

\* C6: Serialize of a payload within the limit whose encoded form exceeds it
\* (65529..65536 bytes) returns null with 0 in out_len; every buffer Serialize
\* returns has at most 65536 bytes.
C6_PostEncodeCheck ==
    /\ (IsSerialize /\ WellFormed /\ call.len <= SizeLimit
            /\ call.len + U64Width > SizeLimit) =>
           (call.ret = Null /\ call.slot_after = 0)
    /\ (IsSerialize /\ call.ret # Null) =>
           (ByteLen(Contents(call.ret)) <= SizeLimit /\ call.slot_after <= SizeLimit)

\* Serialize has encoded a payload of 65529 bytes and refused the result
C6_Witness ==
    /\ IsSerialize /\ WellFormed
    /\ call.len = SizeLimit - U64Width + 1
    /\ call.status = "EncodedOverLimit"
    /\ call.encode_called
    /\ call.ret = Null

\* C7: Serialize with a null data pointer, length 0 and an out_len slot
\* returns a non-null pointer to 8 zero bytes and writes 8 through out_len.
C7_NullEmptySerialize ==
    IsSerialize /\ call.data_null /\ call.len = 0 /\ ~call.out_null =>
        /\ call.ret # Null
        /\ Unpack(Contents(call.ret)) = <<0, 0, 0, 0, 0, 0, 0, 0>>
        /\ call.slot_after = 8

\* Serialize has returned a buffer for a null data pointer with length 0
C7_Witness ==
    /\ IsSerialize /\ call.data_null /\ call.len = 0 /\ ~call.out_null
    /\ call.ret \in Live
    /\ call.slot_before = 7

\* C8: Serialize and Deserialize with a null data pointer and a non-zero
\* length return null and do not read through the data pointer.
C8_NullDataRefused ==
    (IsSerialize \/ IsDeserialize) /\ call.data_null /\ call.len # 0 =>
        (call.ret = Null /\ ~call.read_data)

\* Deserialize has refused a null data pointer with length 5
C8_Witness ==
    /\ IsDeserialize /\ call.data_null /\ call.len = 5
    /\ call.status = "NullData"
    /\ call.ret = Null

\* C9: a Serialize or Deserialize call returns a non-null pointer exactly
\* when it succeeds, also when the decoded payload is empty.
C9_NullIffFailure ==
    (IsSerialize \/ IsDeserialize) =>
        /\ (call.status = "Ok") = (call.ret # Null)
        /\ (call.ret # Null => call.ret = Dangling \/ call.ret \in Live)

\* Deserialize has succeeded with an empty payload
C9_Witness ==
    /\ IsDeserialize /\ call.status = "Ok"
    /\ call.len = U64Width
    /\ call.slot_after = 0 /\ call.slot_before = 7
    /\ call.ret # Null

\* what Serialize does on the argument of the current call, given an out_len
SerializeOnSame == bincode_serialize(call.data_null, call.data, call.len, FALSE)

\* C10 as stated: GetSerializedLength returns the length Serialize writes
\* through out_len for the same input, and returns 0 only for a null data
\* pointer with non-zero length.
C10_LengthAsSerialize ==
    call.op = "get_serialized_length" =>
        /\ (SerializeOnSame.wrote => call.value = SerializeOnSame.value)
        /\ (call.value = 0 => call.data_null /\ call.len # 0)

\* C10 as amended: for a non-null data pointer and a payload of at most
\* 65528 bytes GetSerializedLength returns the length Serialize writes
\* through out_len for the same input, and it returns 0 only for a null data
\* pointer.
C10_LengthAsSerializeWithinLimit ==
    call.op = "get_serialized_length" =>
        /\ (~call.data_null /\ call.len + U64Width <= SizeLimit =>
                /\ SerializeOnSame.wrote
                /\ SerializeOnSame.status = "Ok"
                /\ call.value = SerializeOnSame.value)
        /\ (call.value = 0 => call.data_null)

\* GetSerializedLength has answered for the longest payload that fits
C10_Witness ==
    /\ call.op = "get_serialized_length"
    /\ ~call.data_null
    /\ call.len = SizeLimit - U64Width
    /\ call.value = SizeLimit

\* C11: GetSerializedLength with a null data pointer returns 0, for length 0
\* as for a non-zero length, and reads nothing.
C11_NullLengthZero ==
    call.op = "get_serialized_length" /\ call.data_null =>
        (call.value = 0 /\ ~call.read_data)

\* GetSerializedLength has answered 0 for a null data pointer with length 0
C11_Witness ==
    /\ call.op = "get_serialized_length"
    /\ call.data_null /\ call.len = 0
    /\ call.value = 0

\* C12: a GetSerializedLength call leaves every live buffer as it was, hands
\* out no allocation, releases none, and leaves the bytes it was given (here
\* a live buffer) unchanged.
C12_LengthQueryPure ==
    [][call'.op = "get_serialized_length" =>
          /\ heap' = heap
          /\ empties' = empties
          /\ (call'.src # Null => heap'[call'.src].bytes = call'.data)]_vars

\* GetSerializedLength has answered for a live buffer while the caller holds
\* two results
C12_Witness ==
    /\ call.op = "get_serialized_length"
    /\ call.src \in Live
    /\ call.value = ByteLen(heap[call.src].bytes) + U64Width
    /\ Held = 2

\* C13: FreeBuffer with a null pointer changes nothing, whatever the length:
\* the live allocations and their contents are as before.
C13_FreeNullNoOp ==
    [][call'.op = "free" /\ call'.ptr = Null =>
          (heap' = heap /\ empties' = empties)]_vars

\* FreeBuffer has returned from (null, 5) while a buffer is live
C13_Witness ==
    /\ call.op = "free"
    /\ call.ptr = Null /\ call.len = 5
    /\ Live # {}

\* the call that has just returned is a successful Serialize or Deserialize
Succeeded == (IsSerialize \/ IsDeserialize) /\ call.ret # Null

\* C14 as stated: the pointer a successful call returns differs from every
\* pointer that is live when it returns, also when the result has length 0.
C14_NoAliasing ==
    [][Succeeded' => call'.ret \notin LivePointers]_vars

\* C14 as amended: a successful call whose result is not empty returns the
\* address of a new allocation, which differs from every live pointer; a
\* result of length 0 has no allocation, its pointer is the address of no
\* live buffer, and the live buffers are as before.
C14_NoAliasingOfAllocations ==
    [][Succeeded' =>
          IF call'.slot_after > 0
          THEN /\ call'.ret \notin LivePointers
               /\ call'.ret \in Addrs
               /\ heap' = [heap EXCEPT ![call'.ret] = heap'[call'.ret]]
               /\ ByteLen(heap'[call'.ret].bytes) = call'.slot_after
          ELSE /\ call'.ret \notin Addrs
               /\ heap' = heap]_vars

\* a call has returned a second buffer while the first is live
C14_Witness ==
    /\ Succeeded
    /\ call.ret \in Live
    /\ Cardinality(Live) = 2

\* C15: a live buffer stays live with its contents through every call but
\* the FreeBuffer call on its pointer; that call releases this buffer and no
\* other; each successful call adds one result to those the caller holds and
\* each FreeBuffer of a returned pointer takes one away, so that nothing is
\* live once every result has been freed.
C15_OwnershipHandOff ==
    [][/\ \A p \in Live :
              IF call'.op = "free" /\ call'.ptr = p
              THEN heap' = [heap EXCEPT ![p] = Free] /\ empties' = empties
              ELSE heap'[p] = heap[p]
       /\ (call'.op = "free" /\ call'.ptr = Dangling =>
              heap' = heap /\ empties' = empties - 1)
       /\ Held' = Held + (IF Succeeded' THEN 1 ELSE 0)
                       - (IF call'.op = "free" /\ call'.ptr # Null THEN 1 ELSE 0)
       /\ (Held' = 0 => Live' = {})]_vars

\* FreeBuffer has released one of two live buffers
C15_Witness ==
    /\ call.op = "free"
    /\ call.ptr \in Addrs /\ call.ptr \notin Live
    /\ call.len > 0
    /\ Cardinality(Live) = 1

\* the length the first 8 bytes of an input state, for lengths below 2^30
\* (anything larger reads as 2^30)
StatedLength(data) ==
    IF (\E i \in 5..8 : ByteAt(data, i) # 0) \/ ByteAt(data, 4) >= 64
    THEN 64 * 16777216
    ELSE ByteAt(data, 1) + 256 * ByteAt(data, 2) + 65536 * ByteAt(data, 3)
             + 16777216 * ByteAt(data, 4)

\* C19: Deserialize, given an out_len slot, fails with a null result and 0
\* in the slot on every input of fewer than 8 bytes, the empty input passed
\* as (null, 0) or as (non-null, 0) included, and on every input whose length
\* field states more bytes than follow it.
C19_ShortInputRefused ==
    (IsDeserialize /\ WellFormed
        /\ (call.len < U64Width
               \/ StatedLength(call.data) > call.len - U64Width)) =>
        (call.ret = Null /\ call.slot_after = 0 /\ call.status = "DecodeError")

\* Deserialize has refused a returned buffer with its last byte cut off:
\* the length field states one byte more than follows
C19_Witness ==
    /\ IsDeserialize /\ WellFormed
    /\ call.cut = 1
    /\ call.len >= U64Width
    /\ StatedLength(call.data) = call.len - U64Width + 1
    /\ call.ret = Null /\ call.slot_before = 7 /\ call.slot_after = 0

\* the value of little-endian bytes, for at most two of them
Le2(lo, hi) == lo + 256 * hi

\* C16: under the Variable strategy a u64 v is written as the one byte v
\* for v <= 250, as 0xFB and v in 2 bytes little-endian for 251..65535, as
\* 0xFC and v in 4 bytes for 65536..2^32-1, and as 0xFD and v in 8 bytes
\* from 2^32 on.
C16_VariableIntEncoding ==
    call.op = "encode_u64" /\ call.config.int_encoding = "Variable" =>
        LET v == call.value
            e == Unpack(call.encoded)
            high == v[2] # 0 \/ v[3] # 0 \/ v[4] # 0
            Pairs(n) == \A i \in 1..4 :
                           IF i <= n THEN Le2(e[2 * i], e[2 * i + 1]) = v[i]
                           ELSE v[i] = 0
        IN  IF ~high /\ v[1] <= 250 THEN e = <<v[1]>>
            ELSE IF ~high THEN Len(e) = 3 /\ e[1] = 251 /\ Pairs(1)
            ELSE IF v[3] = 0 /\ v[4] = 0 THEN Len(e) = 5 /\ e[1] = 252 /\ Pairs(2)
            ELSE Len(e) = 9 /\ e[1] = 253 /\ Pairs(4)

\* 2^32 has been written as 0xFD and 8 bytes
C16_Witness ==
    /\ call.op = "encode_u64" /\ call.config = variable_config
    /\ call.value = <<0, 0, 1, 0>>
    /\ Unpack(call.encoded) = <<253, 0, 0, 0, 0, 1, 0, 0, 0>>

\* the encoded form is within the limit of the configuration
FitsLimit(encoded, config) ==
    config.limit = NoLimit \/ ~Greater(U64(ByteLen(encoded)), config.limit)

C18_EmptyEncoding ==
    call.op = "encode_to_vec" /\ call.payload = <<>> =>
        /\ call.ok
        /\ Unpack(call.encoded) =
               (IF call.config.int_encoding = "Fixed"
                THEN <<0, 0, 0, 0, 0, 0, 0, 0>> ELSE <<0>>)

\* the empty payload has been encoded under the standard configuration
C18_Witness ==
    /\ call.op = "encode_to_vec" /\ call.payload = <<>>
    /\ call.config = standard_config
    /\ ByteLen(call.encoded) = 1

\* C20: a payload encoded under one integer strategy and decoded under the
\* other, with the check that every byte was read, never comes back as
\* itself: the call fails, or is refused by the check, or returns other bytes.
C20_MixedStrategies ==
    (call.op = "decode_from_slice"
        /\ call.config.int_encoding # call.encoded_with.int_encoding) =>
        ~(call.result.ok /\ call.exact /\ call.result.decoded = call.payload)

\* five zero bytes encoded under Fixed have been decoded under Variable to
\* the same five bytes, and refused because bytes were left over
C20_Witness ==
    /\ call.op = "decode_from_slice"
    /\ call.encoded_with = bincode_config /\ call.config = standard_config
    /\ call.payload = Filled(0, 5)
    /\ call.result.ok /\ call.result.decoded = call.payload
    /\ ~call.exact

\* byte i (from 0) of the integer v held as 16-bit digits: (v >> 8i) mod 256
ShiftedByte(v, i) ==
    IF i % 2 = 0 THEN v[i \div 2 + 1] % 256 ELSE v[i \div 2 + 1] \div 256

\* C22: under the Fixed strategy every u64 is written as exactly 8 bytes and
\* every u32 as exactly 4 bytes, whatever the value, byte i being
\* (v >> 8i) mod 256; 0x12345678 gives [0x78, 0x56, 0x34, 0x12] and
\* 0x0123456789ABCDEF gives [0xEF, 0xCD, 0xAB, 0x89, 0x67, 0x45, 0x23, 0x01].
C22_FixedIntEncoding ==
    (call.op \in {"encode_u64", "encode_u32"}
        /\ call.config.int_encoding = "Fixed") =>
        LET e == Unpack(call.encoded)
            w == IF call.op = "encode_u64" THEN 8 ELSE 4
        IN  /\ Len(e) = w
            /\ \A i \in 0..(w - 1) : e[i + 1] = ShiftedByte(call.value, i)
            /\ (call.value = <<22136, 4660>> => e = <<120, 86, 52, 18>>)
            /\ (call.value = <<52719, 35243, 17767, 291>> =>
                    e = <<239, 205, 171, 137, 103, 69, 35, 1>>)

\* 0x12345678 has been written as a u32 under the boundary's configuration
C22_Witness ==
    /\ call.op = "encode_u32" /\ call.config = bincode_config
    /\ call.value = <<22136, 4660>>
    /\ Unpack(call.encoded) = <<120, 86, 52, 18>>

\* the width of the length field of a payload of v bytes (v as u64) under
\* the Variable strategy, as the claim gives it
VariableOverhead(v) ==
    IF Below(v, 1) /\ v[1] <= 250 THEN 1
    ELSE IF Below(v, 1) THEN 3
    ELSE IF Below(v, 2) THEN 5
    ELSE 9

\* C23: the encoded form of a payload of n bytes is its length field
\* followed by the n bytes and nothing else, n + 8 bytes under Fixed; under
\* Variable n + 1 bytes for n <= 250, n + 3 for 251..65535, n + 5 for
\* 65536..2^32-1 and n + 9 from 2^32 on.  Payloads of 2^31 bytes and more
\* are not held as buffers: for them the overhead is the width of the length
\* field, (n as u64).encode, which is checked for n up to 2^64 - 1.
C23_LengthFieldOverhead ==
    /\ call.op = "encode_to_vec" =>
           LET n == ByteLen(call.payload)
               over == ByteLen(call.encoded) - n
           IN  /\ call.ok
               /\ over = (IF call.config.int_encoding = "Fixed" THEN 8
                          ELSE VariableOverhead(U64(n)))
               /\ Take(call.encoded, over) = Pack(encode_u64(U64(n), call.config))
               /\ Drop(call.encoded, over) = call.payload
    /\ call.op = "encode_u64" =>
           ByteLen(call.encoded) = (IF call.config.int_encoding = "Fixed" THEN 8
                                    ELSE VariableOverhead(call.value))

\* a payload of 65536 bytes has been encoded under Variable to 65541 bytes
C23_Witness ==
    /\ call.op = "encode_to_vec" /\ call.config = variable_config
    /\ ByteLen(call.payload) = 65536
    /\ ByteLen(call.encoded) = 65541

\* what the engine, configured as the boundary configures it, makes of the
\* bytes the current call was given
EngineOnSame == decode_from_slice(Take(call.data, call.len), bincode_config)

\* C24: a Deserialize call with a non-null data pointer (and an out_len
\* slot to report through) succeeds exactly when the engine under
\* (little-endian, Fixed, limit 65536) decodes the same bytes and reports
\* every one of them as read; the buffer and the length it then returns are
\* the engine's decoded payload and its length.
C24_DeserializeAsEngine ==
    IsDeserialize /\ ~call.data_null /\ ~call.out_null =>
        LET engine == EngineOnSame
        IN  /\ (call.ret # Null) = (engine.ok /\ engine.bytes_read = call.len)
            /\ (call.ret # Null =>
                   /\ Contents(call.ret) = engine.decoded
                   /\ call.slot_after = ByteLen(engine.decoded))

\* Deserialize has returned the 65528 bytes the engine decodes from an input
\* of 65536 bytes written by hand
C24_Witness ==
    /\ IsDeserialize /\ ~call.data_null /\ ~call.out_null
    /\ call.src = Null
    /\ call.len = SizeLimit
    /\ EngineOnSame.ok /\ EngineOnSame.bytes_read = SizeLimit
    /\ call.ret \in Live
    /\ Contents(call.ret) = EngineOnSame.decoded

\* C25: a Serialize or Deserialize call that returns null leaves the
\* caller's live allocations, and the empty results it holds, exactly as they
\* were, whichever check refused the call: the encoded buffer of the
\* post-encode check and the decoded payload of the trailing-bytes check are
\* dropped before the call returns.
C25_FailureLeaksNothing ==
    [][(call'.op \in {"serialize", "deserialize"} /\ call'.ret = Null) =>
          (heap' = heap /\ empties' = empties)]_vars

\* Serialize has encoded a payload, refused the encoded buffer for its size
\* and returned null while the caller holds a buffer
C25_Witness ==
    /\ IsSerialize /\ call.status = "EncodedOverLimit"
    /\ call.ret = Null
    /\ Cardinality(Live) = 1
    /\ \A p \in Live : heap[p].by = "deserialize"

\* C26: a Serialize call returns a buffer if and only if out_len is not
\* null, the data pointer is not null or len is 0, and len <= 65528; every
\* other call returns null.
C26_SerializeSucceedsIff ==
    IsSerialize =>
        (call.ret # Null) =
            (/\ ~call.out_null
             /\ (~call.data_null \/ call.len = 0)
             /\ call.len <= SizeLimit - U64Width)

\* Serialize has returned the 65536 bytes of a payload of 65528 bytes
C26_Witness ==
    /\ IsSerialize /\ ~call.data_null
    /\ call.len = SizeLimit - U64Width
    /\ call.ret \in Live
    /\ call.slot_after = SizeLimit

\* what Serialize does, given an out_len slot, on the buffer the current
\* call returned
SerializeOnResult ==
    bincode_serialize(FALSE, Contents(call.ret), ByteLen(Contents(call.ret)), FALSE)

\* C27: whenever Deserialize accepts an input x and returns the payload b,
\* Serialize of b succeeds and returns exactly the bytes of x; no accepted
\* input is longer than 65536 bytes, nor shorter than a length field.
C27_CanonicalEncoding ==
    IsDeserialize /\ call.ret # Null =>
        LET again == SerializeOnResult
        IN  /\ again.status = "Ok"
            /\ again.boxed = <<call.data>>
            /\ again.value = call.len
            /\ call.len <= SizeLimit
            /\ call.len >= U64Width

\* Deserialize has accepted the 13 bytes written by hand that Serialize
\* returns for [1, 2, 3, 4, 5]
C27_Witness ==
    /\ IsDeserialize /\ call.src = Null
    /\ Unpack(call.data) = <<5, 0, 0, 0, 0, 0, 0, 0, 1, 2, 3, 4, 5>>
    /\ call.ret \in Live
    /\ SerializeOnResult.boxed = <<call.data>>

\* C28: a Serialize or Deserialize call with a null out_len returns null at
\* its first test, whatever the data pointer and the length: it writes
\* through no pointer, does not read the input, does not invoke the encoder,
\* and the live allocations and held results are as before.
C28_NullOutLen ==
    [][(call'.op \in {"serialize", "deserialize"} /\ call'.out_null) =>
          /\ call'.ret = Null
          /\ call'.status = "NullOutLen"
          /\ ~call'.wrote
          /\ ~call'.read_data
          /\ ~call'.encode_called
          /\ call'.bytes_read = 0
          /\ heap' = heap /\ empties' = empties]_vars

\* Serialize has returned null for [1, 2, 3, 4, 5] passed with a null
\* out_len while the caller holds a buffer
C28_Witness ==
    /\ IsSerialize /\ call.out_null
    /\ call.data = ExamplePayload /\ ~call.data_null
    /\ call.ret = Null /\ ~call.read_data
    /\ Live # {}

\* what the function thread t called returns for the arguments of t when
\* nothing else runs
Alone(t) ==
    LET f == frames[t]
    IN  IF f.op = "serialize"
        THEN bincode_serialize(f.arg.data_null, f.arg.data, f.arg.len, f.out.null)
        ELSE bincode_deserialize(f.arg.data_null, f.arg.data, f.arg.len, f.out.null)

\* every call that has returned has the results of the same call run alone:
\* a null or non-null pointer, the value left in the out_len slot, the bytes
\* behind the pointer; for bincode_get_serialized_length the length
RunsAsAlone ==
    \A t \in Threads :
        frames[t].pc = "returned" =>
            LET f == frames[t]
                r == f.result
            IN  IF f.op = "get_serialized_length"
                THEN /\ r.value = bincode_get_serialized_length(
                                      f.arg.data_null, f.arg.data, f.arg.len).value
                     /\ r.ret = Null
                ELSE /\ (r.ret # Null) = (Alone(t).status = "Ok")
                     /\ r.status = Alone(t).status
                     /\ r.wrote = Alone(t).wrote
                     /\ r.slot_after = (IF Alone(t).wrote THEN Alone(t).value
                                        ELSE f.out.before)
                     /\ (r.ret # Null => <<Contents(r.ret)>> = Alone(t).boxed)

\* a step is the step of one thread and touches what belongs to that
\* thread only: the frames of the other threads are as before, the
\* arguments of a call in progress are as before, and a live buffer changes
\* only by being released by the thread it was returned to
OwnStateOnly ==
    /\ \E t \in Threads : \A u \in Threads \ {t} : frames'[u] = frames[u]
    /\ \A t \in Threads :
           (frames[t].pc # "idle" /\ frames'[t].pc # "idle") =>
               (frames'[t].arg = frames[t].arg /\ frames'[t].out = frames[t].out)
    /\ \A a \in Live :
           \/ heap'[a] = heap[a]
           \/ /\ heap'[a] = Free
              /\ frames[heap[a].by].pc = "returned"
              /\ frames[heap[a].by].result.ret = a
              /\ frames'[heap[a].by].pc = "idle"

\* C21: Serialize, Deserialize and GetSerializedLength calls of two threads
\* on buffers of their own, interleaved statement by statement in every
\* order, each return what the same call returns when it runs alone (null or
\* non-null pointer, output length, output bytes), and no step of one call
\* changes the locals, the arguments or the results of another.
C21_Reentrant ==
    []RunsAsAlone /\ [][OwnStateOnly]_vars

\* a Serialize call has returned its 13 bytes although the other thread
\* entered a Deserialize call after it and is still in the codec
C21_Witness ==
    /\ frames[1].op = "serialize" /\ frames[1].pc = "returned"
    /\ frames[1].arg.data = ExamplePayload
    /\ frames[1].result.ret \in Live /\ frames[1].result.slot_after = 13
    /\ frames[2].op = "deserialize" /\ frames[2].pc = "codec"
    /\ frames[2].arg.len = 14

====
